---- MODULE Spec2Model ----
(***************************************************************************)
(* Model of the four entry scripts of the sessions-scripts repository:     *)
(*   "basic"   src/send_data_transaction.js        lines   1-91            *)
(*   "eth"     src/send_data_transaction.js        lines  93-273           *)
(*   "solana"  src/send_data_transaction_solana.js lines   1-167           *)
(*   "session" src/send_data_transaction_solana.js lines 169-361           *)
(* Each script is an async main; every await is a suspension point, so one *)
(* action of the model is the code that runs between two awaits.  The      *)
(* external collaborators (dag4.keyStore.dataSign, the external wallets,   *)
(* axios.post, setTimeout) are the environment: each call resolves or      *)
(* rejects with a value drawn from a small set.                            *)
(***************************************************************************)
EXTENDS Integers, Sequences, FiniteSets, TLC

VARIABLES
    script,         \* which entry script this process runs
    env,            \* process.env, as read by the script
    account,        \* the dag4 account: [address, publicKey]
    pc,             \* the await the main flow is suspended at
    message,        \* the command object of the operation in hand
    dataToSign,     \* what was handed to the external wallet ("" if nothing)
    signedOver,     \* the command dataSign was last called on
    proof,          \* the proof of the operation in hand
    sessionId,      \* main's sessionId (session script)
    posts,          \* every axios.post issued so far, in order
    lastResponse,   \* how the last completed POST ended
    submitOutcome,  \* what the last submit call reported to its caller
    trace,          \* the calls made to the collaborators, in order
    pending,        \* the asynchronous calls not yet settled
    exitCode,       \* the process exit code, once pc = "exited"
    submitValue,    \* what the last submit call returned to its caller
    extSignature,   \* main's ethSignature / solSignature ("" before signing)
    unit            \* the pure functions called on their own: inputs and results

vars == <<script, env, account, pc, message, dataToSign, signedOver, proof,
          sessionId, posts, lastResponse, submitOutcome, trace, pending, exitCode,
          submitValue, extSignature, unit>>

----------------------------------------------------------------------------
(* Bounds of the model and constants of the program.                       *)

\* how many distinct session hashes the endpoint may answer with
NumHashes == 2
\* how many distinct signatures a signer may produce
NumSignatures == 2

\* publicKey.length === 128
RawKeyLength == 128
\* endSnapshotOrdinal of the eth and solana scripts
EndSnapshotOrdinal == 750
\* endSnapshotOrdinal of createSession
SessionEndSnapshotOrdinal == 12000
\* newEndSnapshotOrdinal of extendSession
NewEndSnapshotOrdinal == 24000
\* the two setTimeout delays of the session script
ExtendDelayMs == 20000
CloseDelayMs == 60000

----------------------------------------------------------------------------
(* JavaScript values.  Every value is a record of the same shape so that   *)
(* any two can be compared.                                                *)

Str(x) == [t |-> "string", s |-> x, n |-> 0]
Num(k) == [t |-> "number", s |-> "", n |-> k]
Undefined == [t |-> "undefined", s |-> "", n |-> 0]
NaN == [t |-> "NaN", s |-> "", n |-> 0]
Null == [t |-> "null", s |-> "", n |-> 0]
\* an object kept opaque (the metadata of NotarizeSession)
Obj(x) == [t |-> "object", s |-> x, n |-> 0]

\* !v for the values an environment variable can take
Falsy(v) == v.t \in {"undefined", "null", "NaN"} \/ (v.t = "string" /\ v.s = "")

Digit(d) == CASE d = 0 -> "0" [] d = 1 -> "1" [] d = 2 -> "2" [] d = 3 -> "3"
              [] d = 4 -> "4" [] d = 5 -> "5" [] d = 6 -> "6" [] d = 7 -> "7"
              [] d = 8 -> "8" [] d = 9 -> "9"

RECURSIVE Decimal(_)
\* the decimal string of a natural number
Decimal(k) == IF k < 10 THEN Digit(k) ELSE Decimal(k \div 10) \o Digit(k % 10)

\* `${v}` in a template literal
TemplateString(v) == CASE v.t = "string" -> v.s
                 [] v.t = "number" -> Decimal(v.n)
                 [] v.t = "undefined" -> "undefined"
                 [] v.t = "NaN" -> "NaN"
                 [] v.t = "null" -> "null"
                 [] v.t = "object" -> "[object Object]"

DigitValue(c) == CASE c = "0" -> 0 [] c = "1" -> 1 [] c = "2" -> 2 [] c = "3" -> 3
                   [] c = "4" -> 4 [] c = "5" -> 5 [] c = "6" -> 6 [] c = "7" -> 7
                   [] c = "8" -> 8 [] c = "9" -> 9 [] OTHER -> 0 - 1

RECURSIVE LeadingDigits(_, _)
\* the value of the digits s starts with, continuing from acc
LeadingDigits(s, acc) ==
    IF Len(s) = 0 \/ DigitValue(SubSeq(s, 1, 1)) < 0 THEN acc
    ELSE LeadingDigits(SubSeq(s, 2, Len(s)), acc * 10 + DigitValue(SubSeq(s, 1, 1)))

\* parseInt(v, 10) for an unsigned input
parseInt(v) ==
    IF v.t = "string" /\ Len(v.s) > 0 /\ DigitValue(SubSeq(v.s, 1, 1)) >= 0
    THEN Num(LeadingDigits(v.s, 0))
    ELSE NaN

\* s.substring(2)
Substring2(s) == SubSeq(s, 3, Len(s))

----------------------------------------------------------------------------
(* Commands: an object with one key, the variant tag, whose value is the   *)
(* object of the fields, in the order the builder writes them.             *)

Field(k, v) == [k |-> k, v |-> v]
Command(tag, fields) == [tag |-> tag, fields |-> fields]
NoMessage == Command("", <<>>)
NoProof == [id |-> "", signature |-> ""]

\* message[tag][key]
Get(m, key) ==
    IF \E i \in 1..Len(m.fields) : m.fields[i].k = key
    THEN m.fields[CHOOSE i \in 1..Len(m.fields) : m.fields[i].k = key].v
    ELSE Undefined

\* message[tag][key] = v, for a key the object has
Set(m, key, v) ==
    [m EXCEPT !.fields = [i \in 1..Len(m.fields) |->
        IF m.fields[i].k = key THEN Field(key, v) ELSE m.fields[i]]]

buildMessage(creator, id, endSnapshotOrdinal) ==
    Command("CreateSession",
            << Field("creator", creator),
               Field("id", id),
               Field("endSnapshotOrdinal", endSnapshotOrdinal) >>)

buildCreateSessionMessage_env(e) ==
    buildMessage(e.CREATOR, e.SESSION_ID, parseInt(e.END_SNAPSHOT_ORDINAL))

buildCreateSessionMessage(accessProvider, accessId, accessObj, endSnapshotOrdinal) ==
    Command("CreateSession",
            << Field("accessProvider", accessProvider),
               Field("accessId", accessId),
               Field("accessObj", accessObj),
               Field("endSnapshotOrdinal", endSnapshotOrdinal),
               Field("hash", Str("")) >>)

buildCreateSolSessionMessage(accessProvider, solanaAddress, accessObj, endSnapshotOrdinal) ==
    Command("CreateSolSession",
            << Field("accessProvider", accessProvider),
               Field("solanaAddress", solanaAddress),
               Field("accessObj", accessObj),
               Field("endSnapshotOrdinal", endSnapshotOrdinal),
               Field("solanaSignature", Str("")) >>)

buildNotarizeSessionMessage(accessProvider, accessId, accessObj, endSnapshotOrdinal) ==
    Command("NotarizeSession",
            << Field("accessProvider", accessProvider),
               Field("accessId", accessId),
               Field("accessObj", accessObj),
               Field("endSnapshotOrdinal", endSnapshotOrdinal),
               Field("metadata", Obj("metadata")) >>)

buildExtendSessionMessage(id, accessProvider, newEndSnapshotOrdinal) ==
    Command("ExtendSession",
            << Field("id", id),
               Field("accessProvider", accessProvider),
               Field("endSnapshotOrdinal", newEndSnapshotOrdinal) >>)

buildCloseSessionMessage(id, accessProvider) ==
    Command("CloseSession",
            << Field("id", id),
               Field("accessProvider", accessProvider) >>)

serializeForEthereumSignature(m) ==
    TemplateString(Get(m, "accessId")) \o TemplateString(Get(m, "accessProvider"))
        \o TemplateString(Get(m, "accessObj")) \o TemplateString(Get(m, "endSnapshotOrdinal"))

\* mutant: the signature field is part of the signed string
serializeForSolanaSignature_withSignature(m) ==
    TemplateString(Get(m, "solanaAddress")) \o TemplateString(Get(m, "accessProvider"))
        \o TemplateString(Get(m, "accessObj")) \o TemplateString(Get(m, "endSnapshotOrdinal"))
        \o TemplateString(Get(m, "solanaSignature"))

serializeForSolanaSignature(m) ==
    TemplateString(Get(m, "solanaAddress")) \o TemplateString(Get(m, "accessProvider"))
        \o TemplateString(Get(m, "accessObj")) \o TemplateString(Get(m, "endSnapshotOrdinal"))

\* mutant: the assignment also resets endSnapshotOrdinal
assignEthereumSignature_resetOrdinal(m, signature) ==
    Set(Set(m, "hash", Str(signature)), "endSnapshotOrdinal", Num(0))

assignEthereumSignature(m, signature) == Set(m, "hash", Str(signature))

\* mutant: the signature is appended to what the field holds
assignSolanaSignature_append(m, signature) ==
    Set(m, "solanaSignature", Str(Get(m, "solanaSignature").s \o signature))

assignSolanaSignature(m, signature) == Set(m, "solanaSignature", Str(signature))

----------------------------------------------------------------------------
(* The proof builders.  Each takes account.publicKey and the signature     *)
(* dataSign resolved with, and returns the proof.                          *)

generateProof(publicKey, signature) ==
    LET uncompressedPublicKey ==
            IF Len(publicKey) = RawKeyLength THEN "04" \o publicKey ELSE publicKey
    IN  [id |-> Substring2(uncompressedPublicKey), signature |-> signature]

\* mutant: the 04 prefix is prepended whatever the length of the key
generateDag4Proof_prefixAlways(publicKey, signature) ==
    LET uncompressedPublicKey == "04" \o publicKey
    IN  [id |-> Substring2(uncompressedPublicKey), signature |-> signature]

generateDag4Proof(publicKey, signature) ==
    LET uncompressedPublicKey ==
            IF Len(publicKey) = RawKeyLength THEN "04" \o publicKey ELSE publicKey
    IN  [id |-> Substring2(uncompressedPublicKey), signature |-> signature]

generateDag4Proof_solana(publicKey, signature) ==
    LET uncompressedPublicKey ==
            IF Len(publicKey) = RawKeyLength THEN "04" \o publicKey ELSE publicKey
    IN  [id |-> Substring2(uncompressedPublicKey), signature |-> signature]

\* mutant: the session script never prepends the 04 prefix
generateDag4Proof_session_neverPrefix(publicKey, signature) ==
    [id |-> Substring2(publicKey), signature |-> signature]

generateDag4Proof_session(publicKey, signature) ==
    LET uncompressedPublicKey ==
            IF Len(publicKey) = RawKeyLength THEN "04" \o publicKey ELSE publicKey
    IN  [id |-> Substring2(uncompressedPublicKey), signature |-> signature]

----------------------------------------------------------------------------
(* The submit functions: the request each one issues, and what each one    *)
(* reports to its caller once the POST has settled.                        *)

\* response.data of a settled POST, as the caller sees it
Data(r) == [body |-> r.body, hash |-> r.hash]
\* the value of a call that returns nothing
UndefinedData == [body |-> "undefined", hash |-> Undefined]

NoResponse == [kind |-> "none", body |-> "none", hash |-> Undefined]

\* mutant: the proof is put twice in the proofs array
Request_twoProofs(metagraphL1DataUrl, m, p) ==
    [url |-> TemplateString(metagraphL1DataUrl) \o "/data",
     body |-> [value |-> m, proofs |-> <<p, p>>]]

\* axios.post(`${metagraphL1DataUrl}/data`, body)
Request(metagraphL1DataUrl, m, p) ==
    [url |-> TemplateString(metagraphL1DataUrl) \o "/data",
     body |-> [value |-> m, proofs |-> <<p>>]]

sendDataTransactionsUsingUrls_request(m, p, metagraphL1DataUrl) ==
    Request(metagraphL1DataUrl, m, p)

\* catch (e) { console.log(...) }; return
sendDataTransactionsUsingUrls_settle(r) ==
    [outcome |-> "returned", value |-> UndefinedData]

sendTransaction_request(m, p, metagraphL1DataUrl) ==
    Request(metagraphL1DataUrl, m, p)

\* both branches of the catch only log; the function returns nothing
sendTransaction_settle(r) ==
    [outcome |-> "returned", value |-> UndefinedData]

sendTransaction_solana_request(m, p, metagraphL1DataUrl) ==
    Request(metagraphL1DataUrl, m, p)

sendTransaction_solana_settle(r) ==
    [outcome |-> "returned", value |-> UndefinedData]

sendTransaction_session_request(m, p, metagraphL1DataUrl) ==
    Request(metagraphL1DataUrl, m, p)

\* mutant: the catch logs and does not throw, as in the other scripts
sendTransaction_session_settle_swallow(r) ==
    IF r.kind = "ok"
    THEN [outcome |-> "returned", value |-> Data(r)]
    ELSE [outcome |-> "returned", value |-> UndefinedData]

\* return response.data, or log and throw e
sendTransaction_session_settle(r) ==
    IF r.kind = "ok"
    THEN [outcome |-> "returned", value |-> Data(r)]
    ELSE [outcome |-> "threw", value |-> UndefinedData]

----------------------------------------------------------------------------
(* The body on the wire: axios.post sends JSON.stringify(body), and the    *)
(* receiver decodes it.                                                    *)

\* the JSON text of a member value: NaN is written as null
JSON_stringify_value(v) ==
    CASE v.t = "string" -> "\"" \o v.s \o "\""
      [] v.t = "number" -> Decimal(v.n)
      [] v.t \in {"NaN", "null"} -> "null"
      [] v.t = "object" -> "{" \o v.s \o "}"

\* JSON.stringify of a command: a member whose value is undefined is left out
JSON_stringify(m) ==
    LET Written(f) == f.v.t # "undefined"
        written == SelectSeq(m.fields, Written)
    IN  [tag |-> m.tag,
         members |-> [i \in 1..Len(written) |->
                         [k |-> written[i].k, text |-> JSON_stringify_value(written[i].v)]]]

\* the value a JSON text decodes to
JSON_parse_value(text) ==
    IF text = "null" THEN Null
    ELSE IF SubSeq(text, 1, 1) = "\"" THEN Str(SubSeq(text, 2, Len(text) - 1))
    ELSE IF SubSeq(text, 1, 1) = "{" THEN Obj(SubSeq(text, 2, Len(text) - 1))
    ELSE Num(LeadingDigits(text, 0))

\* JSON.parse of the text of a command
JSON_parse(w) ==
    Command(w.tag, [i \in 1..Len(w.members) |->
                       Field(w.members[i].k, JSON_parse_value(w.members[i].text))])

----------------------------------------------------------------------------
(* The environment.                                                        *)

Scripts == {"basic", "eth", "solana", "session"}

Signatures == { "sig" \o Decimal(i) : i \in 1..NumSignatures }
Hashes == { "hash" \o Decimal(i) : i \in 1..NumHashes }

RECURSIVE Fill(_)
\* n hex characters
Fill(n) == IF n = 0 THEN "" ELSE IF n = 1 THEN "e" ELSE "5e" \o Fill(n - 2)

\* account.publicKey: with and without the 04 prefix, and shorter keys
PublicKeys ==
    { head \o Fill(len - 2) : head \in {"04", "c7"}, len \in {64, RawKeyLength, RawKeyLength + 2} }

Addresses == {"DAG1", "DAG2"}

\* the value of a required environment variable: unset, empty or set
KeyValues == {Undefined, Str(""), Str("validator-key")}
UrlValues == {Undefined, Str(""), Str("http://l1")}

\* the variables only the basic script reads
BasicEnvs ==
    [CREATOR : {Undefined, Str("creator1")},
     SESSION_ID : {Undefined, Str("session1")},
     END_SNAPSHOT_ORDINAL : {Undefined, Str("750")}]

Envs(s) ==
    { [WALLET_PRIVATE_KEY |-> k, METAGRAPH_L1_DATA_URL |-> u, CREATOR |-> b.CREATOR,
       SESSION_ID |-> b.SESSION_ID, END_SNAPSHOT_ORDINAL |-> b.END_SNAPSHOT_ORDINAL] :
        k \in KeyValues, u \in UrlValues,
        b \in IF s = "basic" THEN BasicEnvs
              ELSE {[CREATOR |-> Undefined, SESSION_ID |-> Undefined,
                     END_SNAPSHOT_ORDINAL |-> Undefined]} }

\* how a POST can end: 2xx with a body that has a hash, 2xx with a body that
\* has none, 2xx with a null body, non-2xx with an error body, no response
Responses ==
    { [kind |-> "ok", body |-> "object", hash |-> Str(h)] : h \in Hashes }
    \cup { [kind |-> "ok", body |-> "object", hash |-> Undefined],
           [kind |-> "ok", body |-> "null", hash |-> Undefined],
           [kind |-> "rejected", body |-> "object", hash |-> Undefined],
           [kind |-> "unreachable", body |-> "none", hash |-> Undefined] }

\* how a signing call can end: "" stands for a rejection
SignOutcomes == Signatures \cup {""}


\* an entry of the trace: a call to a collaborator, or how one settled
Event(ev, stage) == [ev |-> ev, stage |-> stage, resp |-> NoResponse, ms |-> 0]
ResponseEvent(stage, r) ==
    [ev |-> "post." \o r.kind, stage |-> stage, resp |-> r, ms |-> 0]
TimerEvent(stage, ms) == [ev |-> "timer", stage |-> stage, resp |-> NoResponse, ms |-> ms]

\* nothing has been called on its own
NoUnit == [phase |-> "none"]

Init ==
    /\ script \in Scripts
    /\ env \in Envs(script)
    /\ account \in [address : Addresses, publicKey : PublicKeys]
    /\ pc = "start"
    /\ message = NoMessage
    /\ dataToSign = ""
    /\ signedOver = NoMessage
    /\ proof = NoProof
    /\ sessionId = Undefined
    /\ posts = <<>>
    /\ lastResponse = NoResponse
    /\ submitOutcome = "none"
    /\ trace = <<>>
    /\ pending = {}
    /\ exitCode = 0
    /\ submitValue = UndefinedData
    /\ extSignature = ""
    /\ unit = NoUnit

\* process.exit(code), or the end of the process once nothing is pending
Exit(code) ==
    /\ pc' = "exited"
    /\ exitCode' = code
    /\ pending' = {}

\* a rejection of the main promise nobody handles: Node (15 and later, the
\* default --unhandled-rejections=throw) ends the process with code 1
UnhandledRejection == Exit(1)

----------------------------------------------------------------------------
(* The basic script: sendDataTransaction -> sendDataTransactionsUsingUrls. *)
(* Nothing is checked and nothing is caught but the POST.                  *)

sendDataTransaction_start ==
    /\ script = "basic" /\ pc = "start"
    /\ IF Falsy(env.WALLET_PRIVATE_KEY)
       THEN \* account.loginPrivateKey throws on a key that is not there
            /\ UnhandledRejection
            /\ UNCHANGED <<message, signedOver, trace>>
       ELSE \* buildCreateSessionMessage; generateProof up to await dataSign
            /\ message' = buildCreateSessionMessage_env(env)
            /\ signedOver' = message'
            /\ trace' = Append(trace, Event("dataSign", "create"))
            /\ pending' = {"dataSign"}
            /\ pc' = "basic_proof"
            /\ UNCHANGED exitCode
    /\ UNCHANGED <<unit, extSignature, script, env, account, dataToSign, proof, sessionId, posts,
                   lastResponse, submitOutcome, submitValue>>

sendDataTransactionsUsingUrls_proved ==
    /\ script = "basic" /\ pc = "basic_proof"
    /\ \E sig \in SignOutcomes :
        IF sig = ""
        THEN /\ trace' = Append(trace, Event("dataSign.fail", "create"))
             /\ UnhandledRejection
             /\ UNCHANGED <<proof, posts>>
        ELSE /\ proof' = generateProof(account.publicKey, sig)
             /\ posts' = Append(posts, sendDataTransactionsUsingUrls_request(
                                           message, proof', env.METAGRAPH_L1_DATA_URL))
             /\ trace' = trace \o <<Event("dataSign.ok", "create"), Event("post", "create")>>
             /\ pending' = {"post"}
             /\ pc' = "basic_post"
             /\ UNCHANGED exitCode
    /\ UNCHANGED <<unit, extSignature, script, env, account, message, dataToSign, signedOver, sessionId,
                   lastResponse, submitOutcome, submitValue>>

sendDataTransactionsUsingUrls_response ==
    /\ script = "basic" /\ pc = "basic_post"
    /\ \E r \in Responses :
        LET res == sendDataTransactionsUsingUrls_settle(r) IN
        /\ lastResponse' = r
        /\ submitOutcome' = res.outcome
        /\ submitValue' = res.value
        /\ trace' = Append(trace, ResponseEvent("create", r))
        /\ IF res.outcome = "threw" THEN UnhandledRejection ELSE Exit(0)
    /\ UNCHANGED <<unit, extSignature, script, env, account, message, dataToSign, signedOver, proof,
                   sessionId, posts>>

----------------------------------------------------------------------------
(* The eth script: main of src/send_data_transaction.js.                   *)

EthAddress == "0xETH"

main_start ==
    /\ script = "eth" /\ pc = "start"
    /\ IF Falsy(env.WALLET_PRIVATE_KEY)
       THEN /\ Exit(1)
            /\ UNCHANGED <<message, dataToSign, trace>>
       ELSE /\ message' = buildCreateSessionMessage(Str(account.address), Str(EthAddress),
                                                    Str("Owner1"), Num(EndSnapshotOrdinal))
            /\ dataToSign' = serializeForEthereumSignature(message')
            /\ trace' = Append(trace, Event("extSign", "create"))
            /\ pending' = {"signMessage"}
            /\ pc' = "eth_sign"
            /\ UNCHANGED exitCode
    /\ UNCHANGED <<unit, extSignature, script, env, account, signedOver, proof, sessionId, posts,
                   lastResponse, submitOutcome, submitValue>>

\* mutant: the proof is requested over the command before the signature
\* is embedded in it
main_signed_embedLate ==
    /\ script = "eth" /\ pc = "eth_sign"
    /\ \E sig \in SignOutcomes :
        IF sig = ""
        THEN /\ trace' = Append(trace, Event("extSign.fail", "create"))
             /\ UnhandledRejection
             /\ UNCHANGED <<message, signedOver, extSignature>>
        ELSE /\ extSignature' = sig
             /\ signedOver' = message
             /\ message' = assignEthereumSignature(message, extSignature')
             /\ trace' = trace \o <<Event("extSign.ok", "create"), Event("dataSign", "create")>>
             /\ pending' = {"dataSign"}
             /\ pc' = "eth_proof"
             /\ UNCHANGED exitCode
    /\ UNCHANGED <<unit, script, env, account, dataToSign, proof, sessionId, posts,
                   lastResponse, submitOutcome, submitValue>>

main_signed ==
    /\ script = "eth" /\ pc = "eth_sign"
    /\ \E sig \in SignOutcomes :
        IF sig = ""
        THEN /\ trace' = Append(trace, Event("extSign.fail", "create"))
             /\ UnhandledRejection
             /\ UNCHANGED <<message, signedOver, extSignature>>
        ELSE /\ extSignature' = sig
             /\ message' = assignEthereumSignature(message, extSignature')
             /\ signedOver' = message'
             /\ trace' = trace \o <<Event("extSign.ok", "create"), Event("dataSign", "create")>>
             /\ pending' = {"dataSign"}
             /\ pc' = "eth_proof"
             /\ UNCHANGED exitCode
    /\ UNCHANGED <<unit, script, env, account, dataToSign, proof, sessionId, posts,
                   lastResponse, submitOutcome, submitValue>>

main_proved ==
    /\ script = "eth" /\ pc = "eth_proof"
    /\ \E sig \in SignOutcomes :
        IF sig = ""
        THEN /\ trace' = Append(trace, Event("dataSign.fail", "create"))
             /\ UnhandledRejection
             /\ UNCHANGED <<proof, posts>>
        ELSE /\ proof' = generateDag4Proof(account.publicKey, sig)
             /\ IF Falsy(env.METAGRAPH_L1_DATA_URL)
                THEN /\ trace' = Append(trace, Event("dataSign.ok", "create"))
                     /\ Exit(1)
                     /\ UNCHANGED posts
                ELSE /\ posts' = Append(posts, sendTransaction_request(
                                                   message, proof', env.METAGRAPH_L1_DATA_URL))
                     /\ trace' = trace \o <<Event("dataSign.ok", "create"),
                                            Event("post", "create")>>
                     /\ pending' = {"post"}
                     /\ pc' = "eth_post"
                     /\ UNCHANGED exitCode
    /\ UNCHANGED <<unit, extSignature, script, env, account, message, dataToSign, signedOver, sessionId,
                   lastResponse, submitOutcome, submitValue>>

\* mutant: a failed POST is sent once more
main_response_retry ==
    /\ script = "eth" /\ pc = "eth_post"
    /\ \E r \in Responses :
        LET res == sendTransaction_settle(r) IN
        /\ lastResponse' = r
        /\ submitOutcome' = res.outcome
        /\ submitValue' = res.value
        /\ IF r.kind # "ok" /\ Len(posts) < 2
           THEN /\ posts' = Append(posts, posts[Len(posts)])
                /\ trace' = trace \o <<ResponseEvent("create", r), Event("post", "create")>>
                /\ UNCHANGED <<pc, pending, exitCode>>
           ELSE /\ trace' = Append(trace, ResponseEvent("create", r))
                /\ Exit(0)
                /\ UNCHANGED posts
    /\ UNCHANGED <<unit, extSignature, script, env, account, message, dataToSign, signedOver, proof,
                   sessionId>>

main_response ==
    /\ script = "eth" /\ pc = "eth_post"
    /\ \E r \in Responses :
        LET res == sendTransaction_settle(r) IN
        /\ lastResponse' = r
        /\ submitOutcome' = res.outcome
        /\ submitValue' = res.value
        /\ trace' = Append(trace, ResponseEvent("create", r))
        /\ IF res.outcome = "threw" THEN UnhandledRejection ELSE Exit(0)
    /\ UNCHANGED <<unit, extSignature, script, env, account, message, dataToSign, signedOver, proof,
                   sessionId, posts>>

----------------------------------------------------------------------------
(* The solana script: the first main of src/send_data_transaction_solana.js, *)
(* whose whole body is inside a try with catch -> process.exit(1).         *)

SolanaAddress == "QWERTYUIOPASDFGHJKLZXCVBNMQWERTY"

main_solana_start ==
    /\ script = "solana" /\ pc = "start"
    /\ IF Falsy(env.WALLET_PRIVATE_KEY)
       THEN /\ Exit(1)
            /\ UNCHANGED <<message, dataToSign, signedOver, trace, extSignature>>
       ELSE /\ dataToSign' = serializeForSolanaSignature(
                                 buildCreateSolSessionMessage(Str(account.address),
                                     Str(SolanaAddress), Str("Owner1"), Num(EndSnapshotOrdinal)))
            /\ \E sig \in SignOutcomes :
                IF sig = ""
                THEN \* nacl.sign.detached throws: caught by main
                     /\ message' = buildCreateSolSessionMessage(Str(account.address),
                                       Str(SolanaAddress), Str("Owner1"), Num(EndSnapshotOrdinal))
                     /\ trace' = trace \o <<Event("extSign", "create"),
                                            Event("extSign.fail", "create")>>
                     /\ Exit(1)
                     /\ UNCHANGED <<signedOver, extSignature>>
                ELSE /\ extSignature' = sig
                     /\ message' = assignSolanaSignature(
                                       buildCreateSolSessionMessage(Str(account.address),
                                           Str(SolanaAddress), Str("Owner1"),
                                           Num(EndSnapshotOrdinal)), extSignature')
                     /\ signedOver' = message'
                     /\ trace' = trace \o <<Event("extSign", "create"),
                                            Event("extSign.ok", "create"),
                                            Event("dataSign", "create")>>
                     /\ pending' = {"dataSign"}
                     /\ pc' = "solana_proof"
                     /\ UNCHANGED exitCode
    /\ UNCHANGED <<unit, script, env, account, proof, sessionId, posts, lastResponse,
                   submitOutcome, submitValue>>

main_solana_proved ==
    /\ script = "solana" /\ pc = "solana_proof"
    /\ \E sig \in SignOutcomes :
        IF sig = ""
        THEN /\ trace' = Append(trace, Event("dataSign.fail", "create"))
             /\ Exit(1)
             /\ UNCHANGED <<proof, posts>>
        ELSE /\ proof' = generateDag4Proof_solana(account.publicKey, sig)
             /\ IF Falsy(env.METAGRAPH_L1_DATA_URL)
                THEN /\ trace' = Append(trace, Event("dataSign.ok", "create"))
                     /\ Exit(1)
                     /\ UNCHANGED posts
                ELSE /\ posts' = Append(posts, sendTransaction_solana_request(
                                                   message, proof', env.METAGRAPH_L1_DATA_URL))
                     /\ trace' = trace \o <<Event("dataSign.ok", "create"),
                                            Event("post", "create")>>
                     /\ pending' = {"post"}
                     /\ pc' = "solana_post"
                     /\ UNCHANGED exitCode
    /\ UNCHANGED <<unit, extSignature, script, env, account, message, dataToSign, signedOver, sessionId,
                   lastResponse, submitOutcome, submitValue>>

main_solana_response ==
    /\ script = "solana" /\ pc = "solana_post"
    /\ \E r \in Responses :
        LET res == sendTransaction_solana_settle(r) IN
        /\ lastResponse' = r
        /\ submitOutcome' = res.outcome
        /\ submitValue' = res.value
        /\ trace' = Append(trace, ResponseEvent("create", r))
        /\ IF res.outcome = "threw" THEN Exit(1) ELSE Exit(0)
    /\ UNCHANGED <<unit, extSignature, script, env, account, message, dataToSign, signedOver, proof,
                   sessionId, posts>>

----------------------------------------------------------------------------
(* The session script: the second main of                                  *)
(* src/send_data_transaction_solana.js, with createSession, extendSession  *)
(* and closeSession.  The three operations are inside one try whose catch  *)
(* is process.exit(1).                                                     *)

\* mutant: dataSign is not awaited, so its rejection does not stop the POST
session_proved_unawaited(stage, nextpc) ==
    /\ \E sig \in SignOutcomes :
        /\ proof' = generateDag4Proof_session(account.publicKey, sig)
        /\ posts' = Append(posts, sendTransaction_session_request(
                                      message, proof', env.METAGRAPH_L1_DATA_URL))
        /\ trace' = trace \o <<Event(IF sig = "" THEN "dataSign.fail" ELSE "dataSign.ok",
                                      stage),
                                Event("post", stage)>>
        /\ pending' = {"post"}
        /\ pc' = nextpc
        /\ UNCHANGED exitCode
    /\ UNCHANGED <<unit, extSignature, script, env, account, message, dataToSign, signedOver, sessionId,
                   lastResponse, submitOutcome, submitValue>>

\* generateDag4Proof has resolved or rejected inside createSession,
\* extendSession or closeSession; on success sendTransaction is entered
session_proved(stage, nextpc) ==
    /\ \E sig \in SignOutcomes :
        IF sig = ""
        THEN /\ trace' = Append(trace, Event("dataSign.fail", stage))
             /\ Exit(1)
             /\ UNCHANGED <<proof, posts>>
        ELSE /\ proof' = generateDag4Proof_session(account.publicKey, sig)
             /\ posts' = Append(posts, sendTransaction_session_request(
                                           message, proof', env.METAGRAPH_L1_DATA_URL))
             /\ trace' = trace \o <<Event("dataSign.ok", stage), Event("post", stage)>>
             /\ pending' = {"post"}
             /\ pc' = nextpc
             /\ UNCHANGED exitCode
    /\ UNCHANGED <<unit, extSignature, script, env, account, message, dataToSign, signedOver, sessionId,
                   lastResponse, submitOutcome, submitValue>>

main_session_start ==
    /\ script = "session" /\ pc = "start"
    /\ IF Falsy(env.WALLET_PRIVATE_KEY) \/ Falsy(env.METAGRAPH_L1_DATA_URL)
       THEN /\ Exit(1)
            /\ UNCHANGED <<message, signedOver, trace>>
       ELSE \* createSession up to await dataSign
            /\ message' = buildNotarizeSessionMessage(Str(account.address),
                              Str(account.address), Str("Owner11"),
                              Num(SessionEndSnapshotOrdinal))
            /\ signedOver' = message'
            /\ trace' = Append(trace, Event("dataSign", "create"))
            /\ pending' = {"dataSign"}
            /\ pc' = "create_proof"
            /\ UNCHANGED exitCode
    /\ UNCHANGED <<unit, extSignature, script, env, account, dataToSign, proof, sessionId, posts,
                   lastResponse, submitOutcome, submitValue>>

createSession_proved ==
    /\ script = "session" /\ pc = "create_proof"
    /\ session_proved("create", "create_post")

\* mutant: the first setTimeout promise is not awaited, extendSession is
\* entered at once
main_session_created_unawaited ==
    /\ script = "session" /\ pc = "create_post"
    /\ \E r \in Responses :
        LET res == sendTransaction_session_settle(r) IN
        /\ lastResponse' = r
        /\ submitOutcome' = res.outcome
        /\ submitValue' = res.value
        /\ IF res.outcome = "threw" \/ res.value.body \in {"null", "undefined"}
           THEN /\ trace' = Append(trace, ResponseEvent("create", r))
                /\ Exit(1)
                /\ UNCHANGED <<sessionId, message, signedOver, proof>>
           ELSE /\ sessionId' = res.value.hash
                /\ message' = buildExtendSessionMessage(sessionId', Str(account.address),
                                                        Num(NewEndSnapshotOrdinal))
                /\ signedOver' = message'
                /\ proof' = NoProof
                /\ trace' = trace \o <<ResponseEvent("create", r),
                                       TimerEvent("extend", ExtendDelayMs),
                                       Event("dataSign", "extend")>>
                /\ pending' = {"timer", "dataSign"}
                /\ pc' = "extend_proof"
                /\ UNCHANGED exitCode
    /\ UNCHANGED <<unit, extSignature, script, env, account, dataToSign, posts>>

\* the create POST has settled: sessionId = createResult.hash, then the
\* first setTimeout
main_session_created ==
    /\ script = "session" /\ pc = "create_post"
    /\ \E r \in Responses :
        LET res == sendTransaction_session_settle(r) IN
        /\ lastResponse' = r
        /\ submitOutcome' = res.outcome
        /\ submitValue' = res.value
        /\ IF res.outcome = "threw" \/ res.value.body \in {"null", "undefined"}
           THEN \* the rethrown error, or the TypeError of reading .hash
                /\ trace' = Append(trace, ResponseEvent("create", r))
                /\ Exit(1)
                /\ UNCHANGED sessionId
           ELSE /\ sessionId' = res.value.hash
                /\ trace' = trace \o <<ResponseEvent("create", r),
                                       TimerEvent("extend", ExtendDelayMs)>>
                /\ pending' = {"timer"}
                /\ pc' = "wait_extend"
                /\ UNCHANGED exitCode
    /\ UNCHANGED <<unit, extSignature, script, env, account, message, dataToSign, signedOver, proof, posts>>

\* the first timer has fired: extendSession up to await dataSign
main_session_extend ==
    /\ script = "session" /\ pc = "wait_extend"
    /\ message' = buildExtendSessionMessage(sessionId, Str(account.address),
                                            Num(NewEndSnapshotOrdinal))
    /\ signedOver' = message'
    /\ proof' = NoProof
    /\ trace' = trace \o <<Event("timer.fired", "extend"), Event("dataSign", "extend")>>
    /\ pending' = {"dataSign"}
    /\ pc' = "extend_proof"
    /\ UNCHANGED <<unit, extSignature, script, env, account, dataToSign, sessionId, posts, lastResponse,
                   submitOutcome, submitValue, exitCode>>

extendSession_proved ==
    /\ script = "session" /\ pc = "extend_proof"
    /\ session_proved("extend", "extend_post")

\* mutant: the second setTimeout promise is not awaited, closeSession is
\* entered at once
main_session_extended_unawaited ==
    /\ script = "session" /\ pc = "extend_post"
    /\ \E r \in Responses :
        LET res == sendTransaction_session_settle(r) IN
        /\ lastResponse' = r
        /\ submitOutcome' = res.outcome
        /\ submitValue' = res.value
        /\ IF res.outcome = "threw"
           THEN /\ trace' = Append(trace, ResponseEvent("extend", r))
                /\ Exit(1)
                /\ UNCHANGED <<message, signedOver, proof>>
           ELSE /\ message' = buildCloseSessionMessage(sessionId, Str(account.address))
                /\ signedOver' = message'
                /\ proof' = NoProof
                /\ trace' = trace \o <<ResponseEvent("extend", r),
                                       TimerEvent("close", CloseDelayMs),
                                       Event("dataSign", "close")>>
                /\ pending' = {"timer", "dataSign"}
                /\ pc' = "close_proof"
                /\ UNCHANGED exitCode
    /\ UNCHANGED <<unit, extSignature, script, env, account, dataToSign, sessionId, posts>>

\* mutant: the hash of the extend response is taken as the session id
main_session_extended_rebind ==
    /\ script = "session" /\ pc = "extend_post"
    /\ \E r \in Responses :
        LET res == sendTransaction_session_settle(r) IN
        /\ lastResponse' = r
        /\ submitOutcome' = res.outcome
        /\ submitValue' = res.value
        /\ IF res.outcome = "threw" \/ res.value.body \in {"null", "undefined"}
           THEN /\ trace' = Append(trace, ResponseEvent("extend", r))
                /\ Exit(1)
                /\ UNCHANGED sessionId
           ELSE /\ sessionId' = res.value.hash
                /\ trace' = trace \o <<ResponseEvent("extend", r),
                                       TimerEvent("close", CloseDelayMs)>>
                /\ pending' = {"timer"}
                /\ pc' = "wait_close"
                /\ UNCHANGED exitCode
    /\ UNCHANGED <<unit, extSignature, script, env, account, message, dataToSign, signedOver, proof, posts>>

\* the extend POST has settled: the second setTimeout
main_session_extended ==
    /\ script = "session" /\ pc = "extend_post"
    /\ \E r \in Responses :
        LET res == sendTransaction_session_settle(r) IN
        /\ lastResponse' = r
        /\ submitOutcome' = res.outcome
        /\ submitValue' = res.value
        /\ IF res.outcome = "threw"
           THEN /\ trace' = Append(trace, ResponseEvent("extend", r))
                /\ Exit(1)
           ELSE /\ trace' = trace \o <<ResponseEvent("extend", r),
                                       TimerEvent("close", CloseDelayMs)>>
                /\ pending' = {"timer"}
                /\ pc' = "wait_close"
                /\ UNCHANGED exitCode
    /\ UNCHANGED <<unit, extSignature, script, env, account, message, dataToSign, signedOver, proof,
                   sessionId, posts>>

\* mutant: the promise of the second wait is made without a call to
\* resolve, so closeSession is never entered
main_session_close_neverResolved ==
    /\ script = "session" /\ pc = "wait_close"
    /\ FALSE
    /\ UNCHANGED vars

\* the second timer has fired: closeSession up to await dataSign
main_session_close ==
    /\ script = "session" /\ pc = "wait_close"
    /\ message' = buildCloseSessionMessage(sessionId, Str(account.address))
    /\ signedOver' = message'
    /\ proof' = NoProof
    /\ trace' = trace \o <<Event("timer.fired", "close"), Event("dataSign", "close")>>
    /\ pending' = {"dataSign"}
    /\ pc' = "close_proof"
    /\ UNCHANGED <<unit, extSignature, script, env, account, dataToSign, sessionId, posts, lastResponse,
                   submitOutcome, submitValue, exitCode>>

closeSession_proved ==
    /\ script = "session" /\ pc = "close_proof"
    /\ session_proved("close", "close_post")

\* the close POST has settled: main returns, or its catch exits with 1
main_session_closed ==
    /\ script = "session" /\ pc = "close_post"
    /\ \E r \in Responses :
        LET res == sendTransaction_session_settle(r) IN
        /\ lastResponse' = r
        /\ submitOutcome' = res.outcome
        /\ submitValue' = res.value
        /\ trace' = Append(trace, ResponseEvent("close", r))
        /\ IF res.outcome = "threw" THEN Exit(1) ELSE Exit(0)
    /\ UNCHANGED <<unit, extSignature, script, env, account, message, dataToSign, signedOver, proof,
                   sessionId, posts>>

----------------------------------------------------------------------------

Next ==
    \/ sendDataTransaction_start
    \/ sendDataTransactionsUsingUrls_proved
    \/ sendDataTransactionsUsingUrls_response
    \/ main_start
    \/ main_signed
    \/ main_proved
    \/ main_response
    \/ main_solana_start
    \/ main_solana_proved
    \/ main_solana_response
    \/ main_session_start
    \/ createSession_proved
    \/ main_session_created
    \/ main_session_extend
    \/ extendSession_proved
    \/ main_session_extended
    \/ main_session_close
    \/ closeSession_proved
    \/ main_session_closed

Spec == Init /\ [][Next]_vars

\* every asynchronous call settles and every continuation that is ready is
\* run by the event loop
FairSpec == Spec /\ WF_vars(Next)

----------------------------------------------------------------------------
(* The functions of the pipeline called on their own, outside a run: two   *)
(* commands of one variant are built, the signature embedder is called on  *)
(* the first up to MaxEmbeds times and the serializer is called on the     *)
(* results; or the four proof builders are called with one public key and  *)
(* one signature.                                                          *)

\* how many times the embedder is called on one command
MaxEmbeds == 2

\* the serializer and the embedder of a command, by its variant
Serialize(m) ==
    IF m.tag = "CreateSession" THEN serializeForEthereumSignature(m)
    ELSE serializeForSolanaSignature(m)
Embedded(m, s) ==
    IF m.tag = "CreateSession" THEN assignEthereumSignature(m, s)
    ELSE assignSolanaSignature(m, s)
SignatureField(m) == IF m.tag = "CreateSession" THEN "hash" ELSE "solanaSignature"

\* the command main builds before the external signature, per script
BuiltCommand ==
    IF script = "eth"
    THEN buildCreateSessionMessage(Str(account.address), Str(EthAddress),
                                   Str("Owner1"), Num(EndSnapshotOrdinal))
    ELSE buildCreateSolSessionMessage(Str(account.address), Str(SolanaAddress),
                                      Str("Owner1"), Num(EndSnapshotOrdinal))

\* the arguments of buildCreateSessionMessage / buildCreateSolSessionMessage
\* (id is accessId or solanaAddress)
Params ==
    [accessProvider : Addresses,
     id : {EthAddress, SolanaAddress},
     accessObj : {"Owner1", "Owner17"},
     endSnapshotOrdinal : {50, EndSnapshotOrdinal}]

Build(variant, p) ==
    IF variant = "CreateSession"
    THEN buildCreateSessionMessage(Str(p.accessProvider), Str(p.id), Str(p.accessObj),
                                   Num(p.endSnapshotOrdinal))
    ELSE buildCreateSolSessionMessage(Str(p.accessProvider), Str(p.id), Str(p.accessObj),
                                      Num(p.endSnapshotOrdinal))

\* the variables of a run
runVars == <<script, env, account, pc, message, dataToSign, signedOver, proof, sessionId,
             posts, lastResponse, submitOutcome, trace, pending, exitCode, submitValue,
             extSignature>>

InitLib ==
    /\ script = "library"
    /\ env \in Envs("library")
    /\ env.WALLET_PRIVATE_KEY = Undefined /\ env.METAGRAPH_L1_DATA_URL = Undefined
    /\ account = [address |-> "DAG1", publicKey |-> ""]
    /\ pc = "library"
    /\ message = NoMessage
    /\ dataToSign = ""
    /\ signedOver = NoMessage
    /\ proof = NoProof
    /\ sessionId = Undefined
    /\ posts = <<>>
    /\ lastResponse = NoResponse
    /\ submitOutcome = "none"
    /\ trace = <<>>
    /\ pending = {}
    /\ exitCode = 0
    /\ submitValue = UndefinedData
    /\ extSignature = ""
    /\ unit = [phase |-> "start"]

\* two commands of one variant are built
call_build ==
    /\ unit.phase = "start"
    /\ \E variant \in {"CreateSession", "CreateSolSession"}, p1 \in Params, p2 \in Params :
        unit' = [phase |-> "built", params |-> p1, otherParams |-> p2,
                 built |-> Build(variant, p1), cmd |-> Build(variant, p1),
                 other |-> Build(variant, p2), embeds |-> <<>>,
                 ser |-> "", serBuilt |-> "", serOther |-> ""]
    /\ UNCHANGED runVars

\* the embedder is called on the first command, which it changes in place
call_embed ==
    /\ unit.phase = "built"
    /\ Len(unit.embeds) < MaxEmbeds
    /\ \E s \in Signatures :
        unit' = [unit EXCEPT !.cmd = Embedded(@, s), !.embeds = Append(@, s)]
    /\ UNCHANGED runVars

\* the serializer is called on the first command as it is now, on the
\* first command as it was built, and on the second command
call_serialize ==
    /\ unit.phase = "built"
    /\ unit' = [unit EXCEPT !.phase = "serialized",
                            !.ser = Serialize(unit.cmd),
                            !.serBuilt = Serialize(unit.built),
                            !.serOther = Serialize(unit.other)]
    /\ UNCHANGED runVars

\* the four proof builders are called with one public key and one signature
call_generateProofs ==
    /\ unit.phase = "start"
    /\ \E publicKey \in PublicKeys, signature \in Signatures :
        unit' = [phase |-> "proved", publicKey |-> publicKey,
                 proofs |-> << generateProof(publicKey, signature),
                               generateDag4Proof(publicKey, signature),
                               generateDag4Proof_solana(publicKey, signature),
                               generateDag4Proof_session(publicKey, signature) >>]
    /\ UNCHANGED runVars

NextLib ==
    \/ call_build
    \/ call_embed
    \/ call_serialize
    \/ call_generateProofs

SpecLib == InitLib /\ [][NextLib]_vars

----------------------------------------------------------------------------
(* Vocabulary of the properties.                                           *)

Idx == 1..Len(trace)
IsPost(i) == trace[i].ev = "post"
SubmissionFailure(i) == trace[i].ev \in {"post.rejected", "post.unreachable"}
SigningFailure(i) == trace[i].ev \in {"extSign.fail", "dataSign.fail"}
Settled(i) == trace[i].ev \in {"post.ok", "post.rejected", "post.unreachable"}
Rank(stage) == CASE stage = "create" -> 1 [] stage = "extend" -> 2 [] stage = "close" -> 3
MissingEnv == Falsy(env.WALLET_PRIVATE_KEY) \/ Falsy(env.METAGRAPH_L1_DATA_URL)
LastStage == IF script = "session" THEN "close" ELSE "create"
AllStagesSucceeded ==
    /\ ~MissingEnv
    /\ \A i \in Idx : ~SubmissionFailure(i) /\ ~SigningFailure(i)
    /\ \E i \in Idx : trace[i].ev = "post.ok" /\ trace[i].stage = LastStage

\* C1: in the session script the POSTs are issued in the order create,
\* extend, close, each stage at most once; the extend POST only after the
\* create POST returned success and the first timer fired, the close POST
\* only after the extend POST returned success and the second timer fired.
C1_LinearOrder ==
    script = "session" =>
        /\ \A i \in Idx : IsPost(i) /\ trace[i].stage = "extend" =>
               \E j, k \in Idx :
                   /\ j < k /\ k < i
                   /\ trace[j].ev = "post.ok" /\ trace[j].stage = "create"
                   /\ trace[k].ev = "timer.fired" /\ trace[k].stage = "extend"
        /\ \A i \in Idx : IsPost(i) /\ trace[i].stage = "close" =>
               \E j, k \in Idx :
                   /\ j < k /\ k < i
                   /\ trace[j].ev = "post.ok" /\ trace[j].stage = "extend"
                   /\ trace[k].ev = "timer.fired" /\ trace[k].stage = "close"
        /\ \A i, j \in Idx : IsPost(i) /\ IsPost(j) /\ i < j =>
               Rank(trace[i].stage) < Rank(trace[j].stage)

\* C1 witness: the session script has issued the close POST.
C1_Witness ==
    script = "session" /\ \E i \in Idx : IsPost(i) /\ trace[i].stage = "close"

\* C2: in the session script, once a stage has failed (dataSign rejected,
\* non-2xx response, no response) no POST is issued any more: the process
\* has exited with nothing sent after the failure.
C2_FailureHalts ==
    script = "session" =>
        \A i \in Idx : SubmissionFailure(i) \/ SigningFailure(i) =>
            /\ pc = "exited"
            /\ \A j \in Idx : j > i => ~IsPost(j)

\* C2 witness: the extend POST was rejected after the create POST succeeded.
C2_Witness ==
    /\ script = "session"
    /\ \E i \in Idx : trace[i].ev = "post.rejected" /\ trace[i].stage = "extend"

\* C3 (as claimed): in the session script, after a 2xx create response that
\* carries no hash, no POST is issued.
C3_NoHashFailsRun ==
    script = "session" =>
        \A i \in Idx :
            (trace[i].ev = "post.ok" /\ trace[i].stage = "create"
                /\ trace[i].resp.hash = Undefined) =>
            \A j \in Idx : j > i => ~IsPost(j)

\* C4: in the session script, sessionId is the hash of the create response,
\* and the id of every ExtendSession and CloseSession command POSTed is
\* that sessionId.
C4_SessionIdThreaded ==
    script = "session" =>
        /\ \A i \in Idx : trace[i].ev = "post.ok" /\ trace[i].stage = "create" =>
               sessionId = trace[i].resp.hash
        /\ \A i \in 1..Len(posts) :
               posts[i].body.value.tag \in {"ExtendSession", "CloseSession"} =>
                   Get(posts[i].body.value, "id") = sessionId

\* C4 witness: extend and close were POSTed with a hash the endpoint gave
\* and the extend response has come back.
C4_Witness ==
    /\ script = "session"
    /\ Len(posts) = 3
    /\ posts[3].body.value.tag = "CloseSession"
    /\ sessionId.t = "string"

\* C5 (as claimed): proof.id is the public key itself, for a key of 128
\* characters and, through ("04" + publicKey).substring(2), for any other.
C5_NoCharacterLost ==
    proof # NoProof =>
        proof.id = IF Len(account.publicKey) = RawKeyLength
                   THEN account.publicKey
                   ELSE Substring2("04" \o account.publicKey)

\* C5 (amended): proof.id is the public key itself for a key of 128
\* characters, and publicKey.substring(2) for a key of any other length.
C5_ProofId ==
    proof # NoProof =>
        proof.id = IF Len(account.publicKey) = RawKeyLength
                   THEN account.publicKey
                   ELSE Substring2(account.publicKey)

\* C5 witness: a proof built from a key that does not have 128 characters.
C5_Witness ==
    /\ proof # NoProof
    /\ Len(account.publicKey) # RawKeyLength
    /\ proof.id # account.publicKey

\* C6: every POST issued settles at most once and every settled submit call
\* issued one POST; no command is POSTed twice; after a rejected or
\* unreachable outcome nothing is POSTed.
C6_SinglePost ==
    /\ Cardinality({i \in Idx : IsPost(i)}) = Len(posts)
    /\ Len(posts) = Cardinality({i \in Idx : Settled(i)})
                        + (IF "post" \in pending THEN 1 ELSE 0)
    /\ \A i, j \in 1..Len(posts) : i # j => posts[i].body.value # posts[j].body.value
    /\ \A i \in Idx : SubmissionFailure(i) => \A j \in Idx : j > i => ~IsPost(j)

\* C6 witness: the POST of the eth script ended without a response.
C6_Witness ==
    /\ script = "eth"
    /\ pc = "exited"
    /\ \E i \in Idx : trace[i].ev = "post.unreachable"

\* C7 (as claimed): a POST that ended with a non-2xx response or without a
\* response is reported to the caller of the submit function as an error.
C7_ErrorsReported ==
    lastResponse.kind \in {"rejected", "unreachable"} => submitOutcome = "threw"

\* C8 (as claimed): the exit code is 1 when a required environment variable
\* is missing or a submission failed, and 0 when all stages succeeded.
C8_ExitCodes ==
    pc = "exited" =>
        /\ (MissingEnv \/ \E i \in Idx : SubmissionFailure(i)) => exitCode = 1
        /\ AllStagesSucceeded => exitCode = 0

\* C9 (as claimed): with a required environment variable missing, neither
\* signing call is ever made.
C9_NoSigningWithoutConfig ==
    MissingEnv => \A i \in Idx : trace[i].ev \notin {"extSign", "dataSign"}

\* C10 (as claimed): once a signing step has failed, the run has issued no
\* POST at all.
C10_NoPostOnRun ==
    (\E i \in Idx : SigningFailure(i)) => \A j \in Idx : ~IsPost(j)

\* C10 (amended): once a signing step has failed, the command of that
\* operation is never POSTed and nothing is POSTed afterwards; what was
\* POSTed belongs to the operations completed before.
C10_NoPostOfFailedOperation ==
    \A i \in Idx : SigningFailure(i) =>
        \A j \in Idx : IsPost(j) => j < i /\ trace[j].stage # trace[i].stage

\* C10 witness: dataSign rejected in extendSession, after the create POST.
C10_Witness ==
    /\ script = "session"
    /\ pc = "exited"
    /\ \E i \in Idx : trace[i].ev = "dataSign.fail" /\ trace[i].stage = "extend"

----------------------------------------------------------------------------
(* The submit functions, the envelope and the chain of asynchronous calls. *)

PostIdx == 1..Len(posts)
LastPost == posts[Len(posts)]
VariantTags ==
    {"CreateSession", "CreateSolSession", "NotarizeSession", "ExtendSession", "CloseSession"}

\* C14 (as claimed): whenever a POST was answered 2xx, the submit function
\* returned the parsed response body to its caller.
C14_ReturnsParsedBody ==
    lastResponse.kind = "ok" => submitValue = Data(lastResponse)

\* C15: every POSTed body has exactly the keys value and proofs; value
\* carries one of the five variant tags; proofs has length 1 and its
\* element has exactly the fields id and signature.
C15_Envelope ==
    \A i \in PostIdx :
        /\ DOMAIN posts[i].body = {"value", "proofs"}
        /\ posts[i].body.value.tag \in VariantTags
        /\ Len(posts[i].body.proofs) = 1
        /\ DOMAIN posts[i].body.proofs[1] = {"id", "signature"}

\* C15 witness: the session script has POSTed its three envelopes.
C15_Witness ==
    /\ Len(posts) = 3
    /\ LastPost.body.value.tag = "CloseSession"

\* the command the receiver decodes from the body of a POST
Decoded(post) == JSON_parse(JSON_stringify(post.body.value))

\* C16 (as claimed): decoding the JSON of a POSTed envelope gives the tag
\* of the command and, for every field the builder was given, a field of
\* that name with the same value.
C16_RoundTrip ==
    \A i \in PostIdx :
        LET supplied == posts[i].body.value
            decoded == Decoded(posts[i])
        IN  /\ decoded.tag = supplied.tag
            /\ \A j \in 1..Len(supplied.fields) :
                  \E k \in 1..Len(decoded.fields) : decoded.fields[k] = supplied.fields[j]

\* C18: the command in a POSTed envelope is the command the proof was
\* computed over; for the scripts with an external signature that command
\* is the built command with the signature embedded once, and the
\* signature is the one the external signer returned, never the placeholder.
C18_PostedIsProved ==
    /\ (pending = {"post"} \/ (script # "session" /\ posts # <<>>)) =>
          /\ LastPost.body.value = signedOver
          /\ signedOver = message
    /\ (script \in {"eth", "solana"} /\ signedOver # NoMessage) =>
          /\ extSignature \in Signatures
          /\ signedOver = Embedded(BuiltCommand, extSignature)
          /\ message = signedOver

\* C18 witness: the eth script has POSTed the command with the signature.
C18_Witness ==
    /\ script = "eth"
    /\ pc = "eth_post"
    /\ Get(LastPost.body.value, "hash") = Str(extSignature)

IsCall(i) == trace[i].ev \in {"extSign", "dataSign", "post", "timer"}
\* how a call of the given kind can settle
Settlements(ev) ==
    CASE ev = "extSign" -> {"extSign.ok", "extSign.fail"}
      [] ev = "dataSign" -> {"dataSign.ok", "dataSign.fail"}
      [] ev = "post" -> {"post.ok", "post.rejected", "post.unreachable"}
      [] ev = "timer" -> {"timer.fired"}

\* C19: at most one asynchronous call is pending; every call is followed
\* at once by its own settlement and every settlement follows its call, so
\* no step starts before the one before it completed; between two POSTs
\* the first has settled.
C19_Sequential ==
    /\ Cardinality(pending) <= 1
    /\ \A i \in Idx :
          IF IsCall(i)
          THEN i < Len(trace) =>
                  /\ trace[i + 1].ev \in Settlements(trace[i].ev)
                  /\ trace[i + 1].stage = trace[i].stage
          ELSE i > 1 /\ IsCall(i - 1)
    /\ (trace # <<>> /\ IsCall(Len(trace))) => pending # {}
    /\ \A i, j \in Idx :
          (i < j /\ IsPost(i) /\ IsPost(j)) => \E k \in Idx : i < k /\ k < j /\ Settled(k)

\* C19 witness: the close POST is in flight, after two POSTs and two timers.
C19_Witness ==
    /\ pending = {"post"}
    /\ pc = "close_post"
    /\ Len(posts) = 3

----------------------------------------------------------------------------
(* The serializers, the embedders and the proof builders on their own.     *)

HasCommand == unit.phase \in {"built", "serialized"}

\* every field but the signature field is as the builder wrote it
OtherFieldsKept ==
    /\ unit.cmd.tag = unit.built.tag
    /\ Len(unit.cmd.fields) = Len(unit.built.fields)
    /\ \A i \in 1..Len(unit.built.fields) :
          /\ unit.cmd.fields[i].k = unit.built.fields[i].k
          /\ unit.built.fields[i].k # SignatureField(unit.built) =>
                unit.cmd.fields[i].v = unit.built.fields[i].v

\* C11 (as claimed): two commands of one variant that differ in a field of
\* the signed subset have different serializations.
C11_Injective ==
    (unit.phase = "serialized" /\ unit.params # unit.otherParams) =>
        unit.serBuilt # unit.serOther

\* C12: after one call of the embedder the signature field holds the
\* signature, the variant tag is the same and every other field has the
\* value it had before.
C12_EmbedFrame ==
    (HasCommand /\ Len(unit.embeds) = 1) =>
        /\ Get(unit.cmd, SignatureField(unit.built)) = Str(unit.embeds[1])
        /\ OtherFieldsKept

\* C12 witness: a CreateSession command with a signature embedded in it.
C12_Witness ==
    /\ HasCommand
    /\ Len(unit.embeds) = 1
    /\ unit.cmd.tag = "CreateSession"
    /\ Get(unit.cmd, "hash") # Get(unit.built, "hash")

\* C13: the four proof builders give the same proof id for the same
\* public key.
C13_SameProofId ==
    unit.phase = "proved" =>
        \A i, j \in 1..Len(unit.proofs) : unit.proofs[i].id = unit.proofs[j].id

\* C13 witness: the builders were called with a key of 128 characters, the
\* case in which the prefix is prepended.
C13_Witness ==
    /\ unit.phase = "proved"
    /\ Len(unit.publicKey) = RawKeyLength
    /\ Len(unit.proofs) = 4

\* the signed string as the claim spells it, from the builder's arguments
Concatenation(p) ==
    p.id \o p.accessProvider \o p.accessObj \o Decimal(p.endSnapshotOrdinal)

C20_Overwrite ==
    (HasCommand /\ Len(unit.embeds) = 2 /\ unit.embeds[1] # unit.embeds[2]) =>
        /\ Get(unit.cmd, SignatureField(unit.built)) = Str(unit.embeds[2])
        /\ unit.cmd = Embedded(unit.built, unit.embeds[2])
        /\ OtherFieldsKept

\* C20 witness: a CreateSolSession command embedded twice with different
\* signatures.
C20_Witness ==
    /\ HasCommand
    /\ unit.cmd.tag = "CreateSolSession"
    /\ Len(unit.embeds) = 2
    /\ unit.embeds[1] # unit.embeds[2]

----------------------------------------------------------------------------
(* The end of a run of the session script.                                 *)

LastEvent == trace[Len(trace)]

\* main returned: the close POST was answered 2xx after the create and the
\* extend POST were
SuccessEnd ==
    /\ exitCode = 0
    /\ trace # <<>>
    /\ LastEvent.ev = "post.ok" /\ LastEvent.stage = "close"
    /\ \A stage \in {"create", "extend"} :
          \E i \in Idx : trace[i].ev = "post.ok" /\ trace[i].stage = stage

\* process.exit(1) at the first failure: a required variable is missing, a
\* signing or a POST failed, or the create response has no body to read
\* the hash from; nothing was called after the failure
FailureEnd ==
    /\ exitCode = 1
    /\ \/ trace = <<>> /\ MissingEnv
       \/ /\ trace # <<>>
          /\ \/ SigningFailure(Len(trace))
             \/ SubmissionFailure(Len(trace))
             \/ /\ LastEvent.ev = "post.ok"
                /\ LastEvent.stage = "create"
                /\ LastEvent.resp.body = "null"
          /\ \A i \in 1..(Len(trace) - 1) : ~SigningFailure(i) /\ ~SubmissionFailure(i)

====
